---- MODULE Spec2Model ----
(***************************************************************************)
(* Model of preload.c: an LD_PRELOAD layer that makes one primary          *)
(* partition of a disk image look like the whole file.  The state is the   *)
(* library's static variables, the environment it reads (P_FILE, P_NUM,    *)
(* the boot sector of the image) and the one file position the intercepted *)
(* seek acts on.  Every intercepted function is one action.                *)
(*                                                                         *)
(* Integer widths.  TLC's integers are 32 bits wide, so the program's      *)
(* uint32_t and 64-bit off_t are modelled at a reduced width that keeps    *)
(* their ratio: an unsigned UintBits-bit integer for uint32_t and a signed *)
(* (2 * UintBits)-bit integer for off_t.  The sector size stays 512.       *)
(***************************************************************************)
EXTENDS Integers, Sequences, FiniteSets, TLC

\* Width, in bits, of the model's stand-in for uint32_t.
UintBits == 11
\* Width of the stand-in for off_t (64 = 2 * 32 in the program).
OffBits == 2 * UintBits
UintMod == 2 ^ UintBits
UintMax == UintMod - 1
OffMod == 2 ^ OffBits
OffMax == 2 ^ (OffBits - 1) - 1
OffMin == -(2 ^ (OffBits - 1))

\* The factor of lines 78-79.
SectorSize == 512
\* sizeof(mbr), line 44.
MbrSize == 512
\* Byte offset of the first partition entry and size of an entry, line 64.
PartTableOffset == 446
PartEntrySize == 16
\* Offsets of start_lba and num_sectors inside part_t, lines 25-26.
StartLbaField == 8
NumSectorsField == 12
\* Signature bytes, line 58.
Sig510 == 85
Sig511 == 170

\* <unistd.h> whence values and <errno.h> codes used by lines 152-169.
SEEK_SET == 0
SEEK_CUR == 1
SEEK_END == 2
EBADF == "EBADF"
EINVAL == "EINVAL"
EOVERFLOW == "EOVERFLOW"
ENOENT == "ENOENT"

NULL == "NULL"
RESOLVED == "RESOLVED"

VARIABLES
  \* --- environment, fixed for the life of the process
  environ,             \* the process environment: a function from the names set to their values
  mbr,                 \* the first 512 bytes of the image: the number each field
                       \* the program reads encodes, by the field's byte offset
  fstat_interposed,    \* whether init's fstat() binds to this library's __fxstat
  \* --- the library's statics, lines 29-38
  initialized,
  file_dev,
  file_ino,
  partition_size_bytes,
  partition_base_bytes,
  partition_end_bytes,
  real_lseek,
  real_stat,
  real_fstat,
  \* --- the process
  status,              \* "running" or "aborted"
  abort_reason,        \* which abort() ended the process
  errno,
  file_pos,            \* real file offset of the caller's descriptor
  init_io,             \* results of the system calls made by the body of init
  init_returned,       \* whether the body of init has run to its end (line 138)
  init_runs,           \* how many times the body of init (line 94 on) was entered
  call,                \* the last intercepted call and what it did
  thr                  \* per thread: the statement it is at inside an intercepted
                       \* function, that function, and the locals it holds

envvars == <<environ, mbr, fstat_interposed>>
statics == <<initialized, file_dev, file_ino, partition_size_bytes,
             partition_base_bytes, partition_end_bytes,
             real_lseek, real_stat, real_fstat>>
procvars == <<status, abort_reason, errno, file_pos, init_io, init_returned,
              init_runs, call>>
vars == <<envvars, statics, procvars, thr>>

(***************************************************************************)
(* Integer arithmetic at the program's widths.                             *)
(***************************************************************************)
\* Unsigned arithmetic on uint32_t wraps (C11 6.2.5p9).
U32(x) == x % UintMod

\* The value a two's-complement off_t holds after an out-of-range result.
WrapOff(x) == ((x - OffMin) % OffMod) + OffMin

InOff(x) == OffMin <= x /\ x <= OffMax

(***************************************************************************)
(* The environment: the image file, the files stat can report, P_NUM.      *)
(***************************************************************************)
ImagePath == "disk.img"

\* The real size of the image file: no multiple of the sector size, so it
\* is never equal to a partition size.
RealSize == 7 * SectorSize + 1

S_ISREG(mode) == mode = "S_IFREG"

\* struct stat, reduced to the fields fixup_statbuf reads or writes and one
\* (st_nlink) that stands for every field it must leave alone.
ImageStat ==
  [st_mode |-> "S_IFREG", st_dev |-> 1, st_ino |-> 2, st_size |-> RealSize, st_nlink |-> 1]

\* What the real stat may report about: the image, a regular file with the
\* same device and another inode, one with the same inode on another
\* device, and a directory that carries the image's device and inode.
StatFiles ==
  { ImageStat,
    [st_mode |-> "S_IFREG", st_dev |-> 1, st_ino |-> 3, st_size |-> 7, st_nlink |-> 1],
    [st_mode |-> "S_IFREG", st_dev |-> 2, st_ino |-> 2, st_size |-> 7, st_nlink |-> 1],
    [st_mode |-> "S_IFDIR", st_dev |-> 1, st_ino |-> 2, st_size |-> 4096, st_nlink |-> 2] }

\* The caller's buffer before a stat call: what an earlier stat of the
\* image left in it.
StaleBuf == [ImageStat EXCEPT !.st_size = 9]

\* Partition entries <<start sector, sector count>> a slot may hold: an
\* unused slot (a zero in either field), entries whose byte offsets fit in
\* UintBits bits, and entries for which start * 512 or count * 512 does not.
WrapSectors == UintMod \div SectorSize
EntryVals ==
  << <<0, 1>>, <<1, 3>>, <<WrapSectors + 1, 1>>,
     <<UintMax, UintMax>>, <<1, 0>>, <<WrapSectors, 3>> >>
NumEntryVals == Len(EntryVals)

PartSlots == 1..4
EntryBase(slot) == PartTableOffset + (slot - 1) * PartEntrySize
MbrFields ==
  { EntryBase(k) + StartLbaField : k \in PartSlots } \cup
  { EntryBase(k) + NumSectorsField : k \in PartSlots } \cup
  { 510, 511 }

\* The boot sector whose slot k holds entry EntryVals[k + r] (the index taken
\* cyclically), so that the four slots of one sector all differ, and whose
\* bytes 510 and 511 are b510 and b511.
MbrOf(r, b510, b511) ==
  [ o \in MbrFields |->
      IF o = 510 THEN b510
      ELSE IF o = 511 THEN b511
      ELSE LET k == ((o - PartTableOffset) \div PartEntrySize) + 1
               f == (o - PartTableOffset) % PartEntrySize
               e == EntryVals[((k - 1 + r) % NumEntryVals) + 1]
           IN IF f = StartLbaField THEN e[1] ELSE e[2] ]

Signatures == { <<Sig510, Sig511>>, <<Sig511, Sig510>>, <<Sig510, 0>> }

Mbrs == { MbrOf(r, sg[1], sg[2]) : r \in 0..(NumEntryVals - 1), sg \in Signatures }

\* Values of P_NUM, as sequences of characters.
PNumStrings ==
  { <<>>, <<"0">>, <<"1">>, <<"2">>, <<"4">>, <<"5">>, <<"6">>, <<"7">>,
    <<"8">>, <<"9">>, <<"1", "2">>, <<"-", "1">>, <<"x">>, <<" ", "+", "3", "x">> }

Digits == <<"0", "1", "2", "3", "4", "5", "6", "7", "8", "9">>
IsDigit(c) == \E d \in 1..10 : Digits[d] = c
DigitVal(c) == (CHOOSE d \in 1..10 : Digits[d] = c) - 1

RECURSIVE AtoiDigits(_, _, _)
AtoiDigits(s, i, acc) ==
  IF i > Len(s) \/ ~IsDigit(s[i]) THEN acc
  ELSE AtoiDigits(s, i + 1, acc * 10 + DigitVal(s[i]))

RECURSIVE SkipSpace(_, _)
SkipSpace(s, i) == IF i <= Len(s) /\ s[i] = " " THEN SkipSpace(s, i + 1) ELSE i

\* atoi(3): leading blanks, an optional sign, then the decimal digits up to
\* the first character that is none; 0 when there are no digits.
atoi(s) ==
  LET i == SkipSpace(s, 1)
  IN IF i <= Len(s) /\ s[i] = "-" THEN -AtoiDigits(s, i + 1, 0)
     ELSE IF i <= Len(s) /\ s[i] = "+" THEN AtoiDigits(s, i + 1, 0)
     ELSE AtoiDigits(s, i, 0)

\* The environments: P_FILE unset, P_NUM unset, or both set.
Environs ==
  { [P_NUM |-> <<"1">>] } \cup
  { [P_FILE |-> ImagePath] } \cup
  { [P_FILE |-> ImagePath, P_NUM |-> n] : n \in PNumStrings }

\* getenv(name) != NULL, and the value it returns then.
HasEnv(name) == name \in DOMAIN environ
getenv(name) == environ[name]

\* Results of the system calls the body of init makes, in the order it makes
\* them: open (line 105), dlsym and the real fstat (line 110, through
\* __fxstat when that is interposed), open (line 48), read (line 52).
\* The first call that fails ends the process, so at most one of them does;
\* nread is what read returns: an error, a short count or the whole sector.
IoOk == [ open1 |-> TRUE, dl_fstat |-> TRUE, fstat |-> TRUE, open2 |-> TRUE, nread |-> MbrSize ]
InitIo ==
  { IoOk,
    [IoOk EXCEPT !.open1 = FALSE], [IoOk EXCEPT !.dl_fstat = FALSE],
    [IoOk EXCEPT !.fstat = FALSE], [IoOk EXCEPT !.open2 = FALSE],
    [IoOk EXCEPT !.nread = -1], [IoOk EXCEPT !.nread = 0],
    [IoOk EXCEPT !.nread = MbrSize - 1] }
\* init_io before the body of init has run.
NoIo == [IoOk EXCEPT !.nread = -2]

(***************************************************************************)
(* The library.  A function of the program is an operator from the statics *)
(* it is entered with (a record S of the variables of lines 29-38) to the  *)
(* statics it leaves and what it returns; abort is the abort() it ended in *)
(* ("none" when it returned).                                              *)
(***************************************************************************)
Statics ==
  [ initialized |-> initialized, file_dev |-> file_dev, file_ino |-> file_ino,
    partition_size_bytes |-> partition_size_bytes,
    partition_base_bytes |-> partition_base_bytes,
    partition_end_bytes |-> partition_end_bytes,
    real_lseek |-> real_lseek, real_stat |-> real_stat, real_fstat |-> real_fstat ]

\* A variant of SignatureOk that tests byte 510 only.
SignatureOk_OneByte(m) == m[510] = Sig510

\* Line 58: the signature test (true when the signature is present).
SignatureOk(m) == ~(m[511] # Sig511 \/ m[510] # Sig510)

\* Line 63: the slots get_partition handles.
IsHandledSlot(part_num) == part_num < 4

\* Line 64: the byte offset of the entry in the sector.
PartEntryAt(part_num) == PartTableOffset + (part_num - 1) * PartEntrySize

\* Lines 78-79: uint32_t * int is computed in uint32_t, then widened to off_t.
SectorsToBytes(sectors) == U32(sectors * SectorSize)

\* Lines 40-88.  ret is the return value; wrote tells whether lines 78-80
\* assigned the window (base, size, end).  Lines 70-71 read the two
\* little-endian fields as the numbers they encode, which is what mbr holds.
get_partition(name, part_num, io) ==
  LET fail == [ret |-> -1, wrote |-> FALSE, base |-> 0, size |-> 0, end |-> 0]
  IN IF ~io.open2 THEN fail
     ELSE IF io.nread # MbrSize THEN fail
     ELSE IF ~SignatureOk(mbr) THEN fail
     ELSE IF ~IsHandledSlot(part_num) THEN fail
     ELSE LET part == PartEntryAt(part_num)
              start_lba == mbr[part + StartLbaField]
              num_sectors == mbr[part + NumSectorsField]
              base == SectorsToBytes(start_lba)
              size == SectorsToBytes(num_sectors)
          IN IF start_lba = 0 \/ num_sectors = 0 THEN fail
             ELSE [ret |-> 0, wrote |-> TRUE, base |-> base, size |-> size,
                   end |-> base + size]

\* A variant of fixup_statbuf that reports the window's end as the size.
fixup_statbuf_WritesEnd(S, ret, buf) ==
  IF ret = 0 /\ S_ISREG(buf.st_mode)
     /\ buf.st_dev = S.file_dev /\ buf.st_ino = S.file_ino
    THEN [ret |-> ret, buf |-> [buf EXCEPT !.st_size = S.partition_end_bytes]]
    ELSE [ret |-> ret, buf |-> buf]

\* A variant of fixup_statbuf that does not look at the result of the real
\* stat.
fixup_statbuf_NoRetCheck(S, ret, buf) ==
  IF S_ISREG(buf.st_mode)
     /\ buf.st_dev = S.file_dev /\ buf.st_ino = S.file_ino
    THEN [ret |-> ret, buf |-> [buf EXCEPT !.st_size = S.partition_size_bytes]]
    ELSE [ret |-> ret, buf |-> buf]

\* A variant of fixup_statbuf that does not compare the inode.
fixup_statbuf_NoInoCheck(S, ret, buf) ==
  IF ret = 0 /\ S_ISREG(buf.st_mode) /\ buf.st_dev = S.file_dev
    THEN [ret |-> ret, buf |-> [buf EXCEPT !.st_size = S.partition_size_bytes]]
    ELSE [ret |-> ret, buf |-> buf]

\* Lines 183-194.
fixup_statbuf(S, ret, buf) ==
  IF ret = 0 /\ S_ISREG(buf.st_mode)
     /\ buf.st_dev = S.file_dev /\ buf.st_ino = S.file_ino
    THEN [ret |-> ret, buf |-> [buf EXCEPT !.st_size = S.partition_size_bytes]]
    ELSE [ret |-> ret, buf |-> buf]

\* Line 110: fstat(fd, &buf) on the image.  Where fstat binds to this
\* library's __fxstat (lines 212-226), that is entered with initialized = 1,
\* so its init() returns at line 93, and the record passes fixup_statbuf.
InitFstat(S, io) ==
  LET ret == IF io.fstat THEN 0 ELSE -1
  IN IF ~fstat_interposed THEN [S |-> S, abort |-> "none", ret |-> ret, buf |-> ImageStat]
     ELSE IF S.real_fstat = NULL /\ ~io.dl_fstat
       THEN [S |-> S, abort |-> "dlsym", ret |-> ret, buf |-> ImageStat]
     ELSE LET S1 == [S EXCEPT !.real_fstat = RESOLVED]
              fx == fixup_statbuf(S1, ret, ImageStat)
          IN [S |-> S1, abort |-> "none", ret |-> fx.ret, buf |-> fx.buf]

\* A variant of PartNumInRange that accepts the primary slots only.
PartNumInRange_Primary(part_num) == ~(part_num < 1 \/ part_num > 4)

\* Line 128: the range accepted for the partition number.
PartNumInRange(part_num) == ~(part_num < 1 \/ part_num > 8)

\* A variant of init without the guard of lines 92-93.
init_NoGuard(S, io) ==
  LET S1 == [S EXCEPT !.initialized = 1]
      out(T, why) == [S |-> T, abort |-> why, ran |-> TRUE]
  IN IF ~HasEnv("P_FILE") THEN out(S1, "P_FILE")
     ELSE IF ~io.open1 THEN out(S1, "open")
     ELSE
       LET fs == InitFstat(S1, io)
       IN IF fs.abort # "none" THEN out(fs.S, fs.abort)
          ELSE IF fs.ret < 0 THEN out(fs.S, "stat")
          ELSE
            LET S2 == [fs.S EXCEPT !.file_dev = fs.buf.st_dev,
                                   !.file_ino = fs.buf.st_ino]
            IN IF ~HasEnv("P_NUM") THEN out(S2, "P_NUM")
               ELSE
                 LET part_num == atoi(getenv("P_NUM"))
                 IN IF ~PartNumInRange(part_num) THEN out(S2, "range")
                    ELSE
                      LET gp == get_partition(getenv("P_FILE"), part_num, io)
                          S3 == IF gp.wrote
                                  THEN [S2 EXCEPT !.partition_base_bytes = gp.base,
                                                  !.partition_size_bytes = gp.size,
                                                  !.partition_end_bytes = gp.end]
                                  ELSE S2
                      IN IF gp.ret < 0 THEN out(S3, "partition")
                         ELSE out(S3, "none")

\* A variant of init that resolves the partition before it opens and stats
\* the image.
init_WindowFirst(S, io) ==
  IF S.initialized # 0 THEN [S |-> S, abort |-> "none", ran |-> FALSE]
  ELSE
    LET S1 == [S EXCEPT !.initialized = 1]
        out(T, why) == [S |-> T, abort |-> why, ran |-> TRUE]
    IN IF ~HasEnv("P_FILE") THEN out(S1, "P_FILE")
       ELSE IF ~HasEnv("P_NUM") THEN out(S1, "P_NUM")
       ELSE
         LET part_num == atoi(getenv("P_NUM"))
         IN IF ~PartNumInRange(part_num) THEN out(S1, "range")
            ELSE
              LET gp == get_partition(getenv("P_FILE"), part_num, io)
                  S2 == IF gp.wrote
                          THEN [S1 EXCEPT !.partition_base_bytes = gp.base,
                                          !.partition_size_bytes = gp.size,
                                          !.partition_end_bytes = gp.end]
                          ELSE S1
              IN IF gp.ret < 0 THEN out(S2, "partition")
                 ELSE IF ~io.open1 THEN out(S2, "open")
                 ELSE
                   LET fs == InitFstat(S2, io)
                   IN IF fs.abort # "none" THEN out(fs.S, fs.abort)
                      ELSE IF fs.ret < 0 THEN out(fs.S, "stat")
                      ELSE out([fs.S EXCEPT !.file_dev = fs.buf.st_dev,
                                            !.file_ino = fs.buf.st_ino], "none")

\* Lines 90-138.  ran tells whether the body (from line 94 on) was executed.
init(S, io) ==
  IF S.initialized # 0 THEN [S |-> S, abort |-> "none", ran |-> FALSE]
  ELSE
    LET S1 == [S EXCEPT !.initialized = 1]
        out(T, why) == [S |-> T, abort |-> why, ran |-> TRUE]
    IN IF ~HasEnv("P_FILE") THEN out(S1, "P_FILE")
       ELSE IF ~io.open1 THEN out(S1, "open")
       ELSE
         LET fs == InitFstat(S1, io)
         IN IF fs.abort # "none" THEN out(fs.S, fs.abort)
            ELSE IF fs.ret < 0 THEN out(fs.S, "stat")
            ELSE
              LET S2 == [fs.S EXCEPT !.file_dev = fs.buf.st_dev,
                                     !.file_ino = fs.buf.st_ino]
              IN IF ~HasEnv("P_NUM") THEN out(S2, "P_NUM")
                 ELSE
                   LET part_num == atoi(getenv("P_NUM"))
                   IN IF ~PartNumInRange(part_num) THEN out(S2, "range")
                      ELSE
                        LET gp == get_partition(getenv("P_FILE"), part_num, io)
                            S3 == IF gp.wrote
                                    THEN [S2 EXCEPT !.partition_base_bytes = gp.base,
                                                    !.partition_size_bytes = gp.size,
                                                    !.partition_end_bytes = gp.end]
                                    ELSE S2
                        IN IF gp.ret < 0 THEN out(S3, "partition")
                           ELSE out(S3, "none")

\* A variant of Resolve that resolves the pointer and does not call init.
Resolve_NoInit(S, ptr, dl_ok, io) ==
  IF S[ptr] # NULL THEN [S |-> S, abort |-> "none", ran |-> FALSE]
  ELSE IF ~dl_ok THEN [S |-> S, abort |-> "dlsym", ran |-> FALSE]
  ELSE [S |-> [S EXCEPT ![ptr] = RESOLVED], abort |-> "none", ran |-> FALSE]

\* Lines 142-150, 198-206 and 214-222: resolve the real function on first
\* use, then run init.
Resolve(S, ptr, dl_ok, io) ==
  IF S[ptr] # NULL THEN [S |-> S, abort |-> "none", ran |-> FALSE]
  ELSE IF ~dl_ok THEN [S |-> S, abort |-> "dlsym", ran |-> FALSE]
  ELSE init([S EXCEPT ![ptr] = RESOLVED], io)

(***************************************************************************)
(* The real (libc) functions behind the resolved pointers.                 *)
(***************************************************************************)
\* The caller's descriptors: 3 is open on a regular file, -1 is not open.
GoodFd == 3
BadFd == -1

\* lseek(2) on a regular file at position pos: the return value, the new
\* position and errno.
RealLseek(fd, pos, offset, whence) ==
  LET fail(e) == [ret |-> -1, pos |-> pos, errno |-> e]
      to(n) == IF n < 0 THEN fail(EINVAL)
               ELSE IF n > OffMax THEN fail(EOVERFLOW)
               ELSE [ret |-> n, pos |-> n, errno |-> "unchanged"]
  IN IF fd # GoodFd THEN fail(EBADF)
     ELSE IF whence = SEEK_SET THEN to(offset)
     ELSE IF whence = SEEK_CUR THEN to(pos + offset)
     ELSE IF whence = SEEK_END THEN to(RealSize + offset)
     ELSE fail(EINVAL)

\* What the real __xstat / __fxstat may do with the caller's buffer buf:
\* fill it with the record of some file and return 0, or fail with -1 and
\* leave it alone.
RealStatResults(buf) ==
  { [ret |-> 0, buf |-> f] : f \in StatFiles } \cup { [ret |-> -1, buf |-> buf] }

(***************************************************************************)
(* lseek, lines 140-181.                                                   *)
(***************************************************************************)
\* What an overflowing signed addition (line 154, undefined behaviour)
\* gives: the sum wrapped around to off_t, or a comparison on line 155 made
\* on the exact sum.
UbModes == {"wrap", "exact"}

\* Lines 153-157.
SeekSetOffset(S, offset, ub) ==
  LET sum == offset + S.partition_base_bytes
      clamp(o) == IF o > S.partition_end_bytes THEN S.partition_end_bytes ELSE o
  IN IF InOff(sum) THEN clamp(sum)
     ELSE IF ub = "wrap" THEN clamp(WrapOff(sum))
     ELSE clamp(sum)

\* A variant of SeekEndOffset that honours the caller's offset.
SeekEndOffset_AddsOffset(S, offset) == S.partition_end_bytes + offset

\* Lines 161-165.
SeekEndOffset(S, offset) == S.partition_end_bytes

\* A variant of SeekRequest that adds the base to a relative offset as well.
SeekRequest_CurAddsBase(S, offset, whence, ub) ==
  CASE whence = SEEK_SET ->
         [kind |-> "call", offset |-> SeekSetOffset(S, offset, ub), whence |-> SEEK_SET]
    [] whence = SEEK_CUR ->
         [kind |-> "call", offset |-> offset + S.partition_base_bytes, whence |-> SEEK_CUR]
    [] whence = SEEK_END ->
         [kind |-> "call", offset |-> SeekEndOffset(S, offset), whence |-> SEEK_SET]
    [] OTHER -> [kind |-> "einval", offset |-> offset, whence |-> whence]

\* A variant of SeekRequest that hands an unknown whence to the real seek.
SeekRequest_PassesUnknown(S, offset, whence, ub) ==
  CASE whence = SEEK_SET ->
         [kind |-> "call", offset |-> offset + S.partition_base_bytes, whence |-> SEEK_SET]
    [] whence = SEEK_END ->
         [kind |-> "call", offset |-> S.partition_end_bytes, whence |-> SEEK_SET]
    [] OTHER ->
         [kind |-> "call", offset |-> offset, whence |-> whence]

\* Lines 152-169: the request handed to the real seek.  kind is "call" or
\* "einval" (the default case).
SeekRequest(S, offset, whence, ub) ==
  CASE whence = SEEK_SET ->
         [kind |-> "call", offset |-> SeekSetOffset(S, offset, ub), whence |-> SEEK_SET]
    [] whence = SEEK_CUR ->
         [kind |-> "call", offset |-> offset, whence |-> SEEK_CUR]
    [] whence = SEEK_END ->
         [kind |-> "call", offset |-> SeekEndOffset(S, offset), whence |-> SEEK_SET]
    [] OTHER ->
         [kind |-> "einval", offset |-> offset, whence |-> whence]

\* A variant of SeekReturn without the test of line 175.
SeekReturn_NoBaseCheck(S, ret) ==
  IF ret < 0 THEN [abort |-> "none", ret |-> ret]
  ELSE [abort |-> "none", ret |-> ret - S.partition_base_bytes]

\* A variant of SeekReturn that returns the absolute position.
SeekReturn_Absolute(S, ret) ==
  IF ret < 0 THEN [abort |-> "none", ret |-> ret]
  ELSE IF ret >= S.partition_base_bytes THEN [abort |-> "none", ret |-> ret]
  ELSE [abort |-> "seek_below_base", ret |-> -1]

\* Lines 172-180: what lseek does with the real seek's result ret.
SeekReturn(S, ret) ==
  IF ret < 0 THEN [abort |-> "none", ret |-> ret]
  ELSE IF ret >= S.partition_base_bytes
    THEN [abort |-> "none", ret |-> ret - S.partition_base_bytes]
  ELSE [abort |-> "seek_below_base", ret |-> -1]

(***************************************************************************)
(* The record of the last intercepted call.                                *)
(***************************************************************************)
\* in_body: the call got past resolving its pointer and init, so that its
\* arguments were looked at; returned: it returned ret to the caller;
\* real_called: it called the real function, with real_offset and
\* real_whence, which returned real_ret (and, for stat, the record buf_real).
NoCall ==
  [ op |-> "none", returned |-> FALSE, ran_init |-> FALSE, in_body |-> FALSE,
    fd |-> 0, offset |-> 0, whence |-> 0, mode |-> 0, len |-> 0, ret |-> 0,
    real_called |-> FALSE, real_offset |-> 0, real_whence |-> 0, real_ret |-> 0,
    buf_real |-> StaleBuf, buf |-> StaleBuf ]

SetStatics(S) ==
  /\ initialized' = S.initialized
  /\ file_dev' = S.file_dev
  /\ file_ino' = S.file_ino
  /\ partition_size_bytes' = S.partition_size_bytes
  /\ partition_base_bytes' = S.partition_base_bytes
  /\ partition_end_bytes' = S.partition_end_bytes
  /\ real_lseek' = S.real_lseek
  /\ real_stat' = S.real_stat
  /\ real_fstat' = S.real_fstat

\* abort(): the process ends inside the call c.
Abort(why, c) ==
  /\ status' = "aborted"
  /\ abort_reason' = why
  /\ call' = [c EXCEPT !.returned = FALSE]
  /\ UNCHANGED <<errno, file_pos>>

\* The inputs of the first call through a pointer: whether dlsym finds the
\* real function, and what the system calls of init return.
\* The dlsym of line 215 is reached from init only where fstat binds to
\* __fxstat and real_fstat is not the pointer being resolved.
DlInputs(ptr) == IF Statics[ptr] = NULL THEN BOOLEAN ELSE {TRUE}
IoInputs(ptr) ==
  IF Statics[ptr] = NULL /\ initialized = 0
    THEN { io \in InitIo : ~io.dl_fstat => (fstat_interposed /\ ptr # "real_fstat") }
    ELSE {IoOk}

\* Offsets a caller passes to lseek.  SEEK_SET: the ends of off_t, the ends
\* of the window and their neighbours, and the greatest offset that line 154
\* can add the base to.  SEEK_CUR: the distances from the current position
\* to just outside the window and to before the start of the file.
\* SEEK_END: the ends of off_t and zero.  Zero for any other whence and for
\* the descriptor that is not open.
SeekOffsets(S, fd, whence) ==
  LET base == S.partition_base_bytes
      size == S.partition_size_bytes
      end == S.partition_end_bytes
  IN CASE fd = BadFd -> { 0 }
       [] whence = SEEK_SET ->
            { OffMin, -1, 0, size, size + 1, OffMax - base, OffMax }
       [] whence = SEEK_CUR ->
            { t - file_pos : t \in {-1, base - 1, end + 1} }
       [] whence = SEEK_END -> { OffMin, 0, OffMax }
       [] OTHER -> { 0 }

\* The outcomes of line 154 to consider for offset: all of them when the
\* addition overflows, one otherwise (they agree).
UbInputs(S, offset, whence) ==
  IF whence = SEEK_SET /\ ~InOff(offset + S.partition_base_bytes)
    THEN UbModes ELSE {"wrap"}

Whences == {SEEK_SET, SEEK_CUR, SEEK_END, 3, -1}

\* The threads of the host process, and a thread that is outside the
\* intercepted functions.  buf is the struct stat of line 102 and ran tells
\* whether the call the thread is in has entered the body of init.
Threads == {"t1", "t2"}
IdleThread == [pc |-> "idle", op |-> "none", ran |-> FALSE, buf |-> StaleBuf]

Init ==
  /\ environ \in Environs
  /\ mbr \in Mbrs
  /\ fstat_interposed \in BOOLEAN
  /\ initialized = 0
  /\ file_dev = 0
  /\ file_ino = 0
  /\ partition_size_bytes = 0
  /\ partition_base_bytes = 0
  /\ partition_end_bytes = 0
  /\ real_lseek = NULL
  /\ real_stat = NULL
  /\ real_fstat = NULL
  /\ status = "running"
  /\ abort_reason = "none"
  /\ errno = "none"
  /\ file_pos = 0
  /\ init_io = NoIo
  /\ init_returned = FALSE
  /\ init_runs = 0
  /\ call = NoCall
  /\ thr = [t \in Threads |-> IdleThread]

\* off_t lseek(int fd, off_t offset, int whence), lines 140-181.
Lseek ==
  /\ status = "running"
  /\ \E dl_ok \in DlInputs("real_lseek"), io \in IoInputs("real_lseek") :
       LET r == Resolve(Statics, "real_lseek", dl_ok, io)
           c0 == [NoCall EXCEPT !.op = "lseek", !.ran_init = r.ran]
       IN /\ SetStatics(r.S)
          /\ init_io' = IF r.ran THEN io ELSE init_io
          /\ init_returned' = (init_returned \/ (r.ran /\ r.abort = "none"))
          /\ init_runs' = IF r.ran THEN init_runs + 1 ELSE init_runs
          /\ IF r.abort # "none" THEN Abort(r.abort, c0)
             ELSE \E fd \in {GoodFd, BadFd}, whence \in Whences :
                  \E offset \in SeekOffsets(r.S, fd, whence) :
                  \E ub \in UbInputs(r.S, offset, whence) :
                    LET c1 == [c0 EXCEPT !.in_body = TRUE, !.fd = fd,
                                         !.offset = offset, !.whence = whence]
                        rq == SeekRequest(r.S, offset, whence, ub)
                    IN CASE rq.kind = "einval" ->
                              /\ errno' = EINVAL
                              /\ call' = [c1 EXCEPT !.returned = TRUE, !.ret = -1]
                              /\ UNCHANGED <<status, abort_reason, file_pos>>
                         [] OTHER ->
                              LET rl == RealLseek(fd, file_pos, rq.offset, rq.whence)
                                  rt == SeekReturn(r.S, rl.ret)
                                  c2 == [c1 EXCEPT !.real_called = TRUE,
                                                   !.real_offset = rq.offset,
                                                   !.real_whence = rq.whence,
                                                   !.real_ret = rl.ret,
                                                   !.ret = rt.ret]
                              IN /\ file_pos' = rl.pos
                                 /\ errno' = IF rl.errno = "unchanged" THEN errno ELSE rl.errno
                                 /\ IF rt.abort # "none"
                                      THEN /\ status' = "aborted"
                                           /\ abort_reason' = rt.abort
                                           /\ call' = c2
                                      ELSE /\ call' = [c2 EXCEPT !.returned = TRUE]
                                           /\ UNCHANGED <<status, abort_reason>>
  /\ UNCHANGED <<envvars, thr>>

\* The body shared by __xstat and __fxstat once the pointer ptr is resolved:
\* the real call (lines 208, 224), then fixup_statbuf (lines 209, 225).
StatCall(op, ptr) ==
  /\ status = "running"
  /\ \E dl_ok \in DlInputs(ptr), io \in IoInputs(ptr) :
       LET r == Resolve(Statics, ptr, dl_ok, io)
           c0 == [NoCall EXCEPT !.op = op, !.ran_init = r.ran]
       IN /\ SetStatics(r.S)
          /\ init_io' = IF r.ran THEN io ELSE init_io
          /\ init_returned' = (init_returned \/ (r.ran /\ r.abort = "none"))
          /\ init_runs' = IF r.ran THEN init_runs + 1 ELSE init_runs
          /\ IF r.abort # "none" THEN Abort(r.abort, c0)
             ELSE \E rr \in RealStatResults(StaleBuf) :
                    LET fx == fixup_statbuf(r.S, rr.ret, rr.buf)
                    IN /\ call' = [c0 EXCEPT !.in_body = TRUE,
                                             !.returned = TRUE, !.real_called = TRUE,
                                             !.real_ret = rr.ret, !.buf_real = rr.buf,
                                             !.ret = fx.ret, !.buf = fx.buf]
                       /\ errno' = IF rr.ret < 0 THEN ENOENT ELSE errno
                       /\ UNCHANGED <<status, abort_reason, file_pos>>
  /\ UNCHANGED <<envvars, thr>>

\* int __xstat(int ver, const char *path, struct stat *buf), lines 196-210.
Xstat == StatCall("__xstat", "real_stat")

\* int __fxstat(int ver, int fd, struct stat *buf), lines 212-226.
Fxstat == StatCall("__fxstat", "real_fstat")

\* int fallocate(int fd, int mode, off_t offset, off_t len), lines 228-232.
\* A variant of Fallocate that fails on a descriptor that is not open.
Fallocate_ChecksFd ==
  /\ status = "running"
  /\ \E fd \in {GoodFd, BadFd}, mode \in {0, 1}, offset \in {-1, 0}, len \in {0, 1} :
       call' = [NoCall EXCEPT !.op = "fallocate", !.in_body = TRUE,
                              !.returned = TRUE, !.fd = fd,
                              !.mode = mode, !.offset = offset, !.len = len,
                              !.ret = IF fd = BadFd THEN -1 ELSE 0]
  /\ errno' = IF call'.fd = BadFd THEN EBADF ELSE errno
  /\ UNCHANGED <<envvars, statics, status, abort_reason, file_pos,
                 init_io, init_returned, init_runs, thr>>

Fallocate ==
  /\ status = "running"
  /\ \E fd \in {GoodFd, BadFd}, mode \in {0, 1}, offset \in {-1, 0}, len \in {0, 1} :
       call' = [NoCall EXCEPT !.op = "fallocate", !.in_body = TRUE,
                              !.returned = TRUE, !.fd = fd,
                              !.mode = mode, !.offset = offset, !.len = len, !.ret = 0]
  /\ UNCHANGED <<envvars, statics, status, abort_reason, errno, file_pos,
                 init_io, init_returned, init_runs, thr>>

Next == Lseek \/ Xstat \/ Fxstat \/ Fallocate

Spec == Init /\ [][Next]_vars

(***************************************************************************)
(* Two threads of the host process inside the intercepted functions, one   *)
(* statement (or one run of statements on locals) at a time.  The statics  *)
(* are shared without a lock, so the steps of the two threads interleave.  *)
(***************************************************************************)
\* The intercepted functions that resolve a pointer and call init, and all
\* the intercepted functions.
InitOps == {"lseek", "__xstat", "__fxstat"}
AllOps == InitOps \cup {"fallocate"}

\* The pointer an intercepted function resolves on its first use.
PtrOf(op) ==
  CASE op = "lseek" -> "real_lseek"
    [] op = "__xstat" -> "real_stat"
    [] op = "__fxstat" -> "real_fstat"

\* A variant of TestInitialized that never finds the flag set.
TestInitialized_Never(S) == FALSE

\* Line 92: if (initialized).
TestInitialized(S) == S.initialized # 0

\* The statements of the body of init, between line 94 and line 138.
InitBodyPcs == {"init_open", "init_fstat", "init_ident", "init_part"}

\* The image and the partition numbers of the two-thread runs: slot 1 of the
\* sector is unused, slot 2 holds a partition.
MtMbr == MbrOf(0, Sig510, Sig511)
MtEnvirons == { [P_FILE |-> ImagePath, P_NUM |-> n] : n \in {<<"1">>, <<"2">>} }

\* Results of the system calls of lines 110 and 48-52.
MtFstatIo == { io \in InitIo : io.open1 /\ io.open2 /\ io.nread = MbrSize }
MtPartIo == { io \in InitIo : io.open1 /\ io.dl_fstat /\ io.fstat }

\* Requests a thread makes to lseek: <<whence, offset>>.
MtSeeks == { <<SEEK_SET, 0>>, <<SEEK_SET, 1>>, <<SEEK_END, 0>> }

At(t, pc) == status = "running" /\ thr[t].pc = pc
Goto(t, pc) == thr' = [thr EXCEPT ![t].pc = pc]
\* abort() inside the call thread t is in.
ThreadAbort(t, why) ==
  /\ Abort(why, [NoCall EXCEPT !.op = thr[t].op, !.ran_init = thr[t].ran])
  /\ UNCHANGED thr

\* Lines 142, 198, 214: a thread enters lseek, __xstat or __fxstat and
\* tests the pointer.
Enter(t) ==
  /\ At(t, "idle")
  /\ \E op \in InitOps :
       thr' = [thr EXCEPT ![t] = [IdleThread EXCEPT
                 !.op = op,
                 !.pc = IF Statics[PtrOf(op)] # NULL THEN "body" ELSE "dlsym"]]
  /\ UNCHANGED <<envvars, statics, procvars>>

\* Lines 143-147, 199-203, 215-219: the pointer is assigned, and tested.
Dlsym(t) ==
  /\ At(t, "dlsym")
  /\ \E dl_ok \in BOOLEAN :
       IF dl_ok
         THEN /\ SetStatics([Statics EXCEPT ![PtrOf(thr[t].op)] = RESOLVED])
              /\ Goto(t, "init_test")
              /\ UNCHANGED procvars
         ELSE /\ ThreadAbort(t, "dlsym")
              /\ UNCHANGED <<statics, init_io, init_returned, init_runs>>
  /\ UNCHANGED envvars

\* Lines 149 and 92-93: init is called and tests the flag.
InitTest(t) ==
  /\ At(t, "init_test")
  /\ Goto(t, IF TestInitialized(Statics) THEN "body" ELSE "init_set")
  /\ UNCHANGED <<envvars, statics, procvars>>

\* Line 94: initialized = 1.
InitSet(t) ==
  /\ At(t, "init_set")
  /\ SetStatics([Statics EXCEPT !.initialized = 1])
  /\ init_runs' = init_runs + 1
  /\ thr' = [thr EXCEPT ![t].pc = "init_open", ![t].ran = TRUE]
  /\ UNCHANGED <<envvars, status, abort_reason, errno, file_pos, init_io,
                 init_returned, call>>

\* Lines 97-109: getenv("P_FILE") and open.
InitOpen(t) ==
  /\ At(t, "init_open")
  /\ \E ok \in BOOLEAN :
       IF ~HasEnv("P_FILE") THEN ThreadAbort(t, "P_FILE")
       ELSE IF ~ok THEN ThreadAbort(t, "open")
       ELSE /\ Goto(t, "init_fstat")
            /\ UNCHANGED <<status, abort_reason, errno, file_pos, call>>
  /\ UNCHANGED <<envvars, statics, init_io, init_returned, init_runs>>

\* Lines 110-115: fstat into the local buf; where fstat binds to __fxstat,
\* that runs here, resolves real_fstat and passes the record through
\* fixup_statbuf, which reads file_dev, file_ino and partition_size_bytes.
InitFstatStep(t) ==
  /\ At(t, "init_fstat")
  /\ \E io \in MtFstatIo :
       LET fs == InitFstat(Statics, io)
       IN IF fs.abort # "none"
            THEN /\ ThreadAbort(t, fs.abort)
                 /\ UNCHANGED statics
          ELSE IF fs.ret < 0
            THEN /\ ThreadAbort(t, "stat")
                 /\ SetStatics(fs.S)
          ELSE /\ SetStatics(fs.S)
               /\ thr' = [thr EXCEPT ![t].pc = "init_ident", ![t].buf = fs.buf]
               /\ UNCHANGED <<status, abort_reason, errno, file_pos, call>>
  /\ UNCHANGED <<envvars, init_io, init_returned, init_runs>>

\* Lines 117-118: the identity is assigned from the local buf.
InitIdent(t) ==
  /\ At(t, "init_ident")
  /\ SetStatics([Statics EXCEPT !.file_dev = thr[t].buf.st_dev,
                                !.file_ino = thr[t].buf.st_ino])
  /\ Goto(t, "init_part")
  /\ UNCHANGED <<envvars, procvars>>

\* Lines 121-138: getenv("P_NUM"), atoi, the range test and get_partition,
\* which assigns the window; init returns to line 150, 206 or 222.
InitPart(t) ==
  /\ At(t, "init_part")
  /\ \E io \in MtPartIo :
       IF ~HasEnv("P_NUM")
         THEN ThreadAbort(t, "P_NUM") /\ UNCHANGED <<statics, init_io, init_returned>>
       ELSE LET part_num == atoi(getenv("P_NUM"))
            IN IF ~PartNumInRange(part_num)
                 THEN ThreadAbort(t, "range")
                      /\ UNCHANGED <<statics, init_io, init_returned>>
               ELSE LET gp == get_partition(getenv("P_FILE"), part_num, io)
                    IN /\ init_io' = io
                       /\ IF gp.wrote
                            THEN SetStatics([Statics EXCEPT
                                   !.partition_base_bytes = gp.base,
                                   !.partition_size_bytes = gp.size,
                                   !.partition_end_bytes = gp.end])
                            ELSE UNCHANGED statics
                       /\ IF gp.ret < 0
                            THEN ThreadAbort(t, "partition") /\ UNCHANGED init_returned
                            ELSE /\ init_returned' = TRUE
                                 /\ Goto(t, "body")
                                 /\ UNCHANGED <<status, abort_reason, errno,
                                                file_pos, call>>
  /\ UNCHANGED <<envvars, init_runs>>

\* Lines 152-180: the switch, the real seek and the return of lseek, on the
\* window as the statics hold it now.
SeekBody(t) ==
  /\ At(t, "body") /\ thr[t].op = "lseek"
  /\ \E rqst \in MtSeeks :
       LET whence == rqst[1]
           offset == rqst[2]
           c1 == [NoCall EXCEPT !.op = "lseek", !.ran_init = thr[t].ran,
                                !.in_body = TRUE, !.fd = GoodFd,
                                !.offset = offset, !.whence = whence]
           rq == SeekRequest(Statics, offset, whence, "wrap")
           rl == RealLseek(GoodFd, file_pos, rq.offset, rq.whence)
           rt == SeekReturn(Statics, rl.ret)
           c2 == [c1 EXCEPT !.real_called = TRUE, !.real_offset = rq.offset,
                            !.real_whence = rq.whence, !.real_ret = rl.ret,
                            !.ret = rt.ret]
       IN /\ file_pos' = rl.pos
          /\ errno' = IF rl.errno = "unchanged" THEN errno ELSE rl.errno
          /\ IF rt.abort # "none"
               THEN /\ status' = "aborted"
                    /\ abort_reason' = rt.abort
                    /\ call' = c2
                    /\ UNCHANGED thr
               ELSE /\ call' = [c2 EXCEPT !.returned = TRUE]
                    /\ thr' = [thr EXCEPT ![t] = IdleThread]
                    /\ UNCHANGED <<status, abort_reason>>
  /\ UNCHANGED <<envvars, statics, init_io, init_returned, init_runs>>

\* Lines 208-209 and 224-225: the real stat, then fixup_statbuf on the
\* identity and the size as the statics hold them now.
StatBody(t) ==
  /\ At(t, "body") /\ thr[t].op \in {"__xstat", "__fxstat"}
  /\ \E rr \in RealStatResults(StaleBuf) :
       LET fx == fixup_statbuf(Statics, rr.ret, rr.buf)
       IN /\ call' = [NoCall EXCEPT !.op = thr[t].op, !.ran_init = thr[t].ran,
                                    !.in_body = TRUE, !.returned = TRUE,
                                    !.real_called = TRUE, !.real_ret = rr.ret,
                                    !.buf_real = rr.buf,
                                    !.ret = fx.ret, !.buf = fx.buf]
          /\ errno' = IF rr.ret < 0 THEN ENOENT ELSE errno
  /\ thr' = [thr EXCEPT ![t] = IdleThread]
  /\ UNCHANGED <<envvars, statics, status, abort_reason, file_pos,
                 init_io, init_returned, init_runs>>

InitMT ==
  /\ Init
  /\ environ \in MtEnvirons
  /\ mbr = MtMbr

ThreadStep(t) ==
  \/ Enter(t) \/ Dlsym(t) \/ InitTest(t) \/ InitSet(t) \/ InitOpen(t)
  \/ InitFstatStep(t) \/ InitIdent(t) \/ InitPart(t)
  \/ SeekBody(t) \/ StatBody(t)

NextMT == \E t \in Threads : ThreadStep(t)

SpecMT == InitMT /\ [][NextMT]_vars

(***************************************************************************)
(* Properties.                                                             *)
(***************************************************************************)
\* The last call is a seek / a stat that reached its body.
SeekCall == call.op = "lseek" /\ call.in_body
StatOp == call.op \in {"__xstat", "__fxstat"} /\ call.in_body

\* C1: after successful initialization, lseek(fd, X, SEEK_SET) with
\* 0 <= X <= size calls the real seek with offset base + X and SEEK_SET and,
\* when the real seek succeeds, returns exactly X (X = size included).
C1_SeekSetInside ==
  (init_returned /\ SeekCall /\ call.whence = SEEK_SET
     /\ 0 <= call.offset /\ call.offset <= partition_size_bytes)
  => /\ call.real_called
     /\ call.real_offset = partition_base_bytes + call.offset
     /\ call.real_whence = SEEK_SET
     /\ (call.real_ret >= 0 => call.returned /\ call.ret = call.offset)

\* A seek to X = size > 0 in a window with base > 0 has returned size.
C1_Witness ==
  /\ init_returned /\ SeekCall /\ call.whence = SEEK_SET
  /\ partition_base_bytes > 0 /\ partition_size_bytes > 0
  /\ call.offset = partition_size_bytes
  /\ call.real_ret >= 0 /\ call.returned /\ call.ret = partition_size_bytes

\* C2: after successful initialization, lseek(fd, X, SEEK_SET) with any
\* X > size passes the partition end to the real seek and, when that
\* succeeds, returns exactly size; it never returns more than size.
C2_SeekSetClamped ==
  (init_returned /\ SeekCall /\ call.whence = SEEK_SET
     /\ call.offset > partition_size_bytes)
  => /\ call.real_called
     /\ call.real_offset = partition_end_bytes
     /\ call.real_whence = SEEK_SET
     /\ (call.real_ret >= 0 => call.returned /\ call.ret = partition_size_bytes)
     /\ (call.returned => call.ret <= partition_size_bytes)

\* C3: after successful initialization, lseek(fd, X, SEEK_END) for any X
\* calls the real seek as SEEK_SET to the partition end, ignoring X, and
\* when the real seek succeeds returns exactly size.
C3_SeekEnd ==
  (init_returned /\ SeekCall /\ call.whence = SEEK_END)
  => /\ call.real_called
     /\ call.real_offset = partition_end_bytes
     /\ call.real_whence = SEEK_SET
     /\ (call.real_ret >= 0 => call.returned /\ call.ret = partition_size_bytes)

\* A SEEK_END seek with a negative offset argument has returned size > 0.
C3_Witness ==
  /\ init_returned /\ SeekCall /\ call.whence = SEEK_END
  /\ call.offset < 0 /\ partition_size_bytes > 0 /\ partition_base_bytes > 0
  /\ call.returned /\ call.ret = partition_size_bytes

\* C4: a seek whose whence is none of SEEK_SET, SEEK_CUR, SEEK_END returns
\* -1 with errno = EINVAL, does not call the real seek and leaves the
\* descriptor's real position as it was.
C4_InvalidWhence ==
  [][ (call'.op = "lseek" /\ call'.in_body
         /\ call'.whence \notin {SEEK_SET, SEEK_CUR, SEEK_END})
      => /\ call'.returned /\ call'.ret = -1
         /\ errno' = EINVAL
         /\ ~call'.real_called
         /\ file_pos' = file_pos
         /\ status' = "running" ]_vars

\* A seek with whence 3 has failed with EINVAL while the descriptor stood
\* at a position an earlier seek had moved it to.
C4_Witness ==
  /\ SeekCall /\ call.whence = 3 /\ call.fd = GoodFd
  /\ call.returned /\ call.ret = -1 /\ errno = EINVAL
  /\ file_pos > 0

\* C5: after successful initialization, when a stat succeeds on a regular
\* file whose device and inode are the captured ones, the size handed to
\* the caller is the window's size and every other field, and the return
\* value, are the real operation's.
C5_StatTarget ==
  (init_returned /\ StatOp /\ call.returned /\ call.real_ret = 0
     /\ S_ISREG(call.buf_real.st_mode)
     /\ call.buf_real.st_dev = file_dev /\ call.buf_real.st_ino = file_ino)
  => /\ call.ret = 0
     /\ call.buf = [call.buf_real EXCEPT !.st_size = partition_size_bytes]

\* A stat of the image has reported the window's size, which is not the
\* file's real size.
C5_Witness ==
  /\ init_returned /\ StatOp /\ call.returned /\ call.real_ret = 0
  /\ call.buf_real = ImageStat
  /\ call.buf.st_size = partition_size_bytes
  /\ partition_size_bytes # RealSize
  /\ partition_size_bytes # partition_end_bytes

\* C6: when the real stat reports a file that is not regular, or whose
\* device or inode is not the captured one, the caller gets the real
\* operation's record and return value unchanged.
C6_StatOther ==
  (StatOp /\ call.returned /\ call.real_ret = 0
     /\ (~S_ISREG(call.buf_real.st_mode)
           \/ call.buf_real.st_dev # file_dev \/ call.buf_real.st_ino # file_ino))
  => /\ call.ret = call.real_ret
     /\ call.buf = call.buf_real

\* A stat of a regular file on the image's device with another inode has
\* returned that file's own size.
C6_Witness ==
  /\ init_returned /\ StatOp /\ call.returned /\ call.real_ret = 0
  /\ S_ISREG(call.buf_real.st_mode)
  /\ call.buf_real.st_dev = file_dev /\ call.buf_real.st_ino # file_ino
  /\ call.buf = call.buf_real
  /\ call.buf.st_size # partition_size_bytes

\* The partition number P_NUM gives, and the entry of the boot sector at
\* byte offset 446 + (index - 1) * 16.
ConfiguredIndex == atoi(getenv("P_NUM"))
EntryStart(index) == mbr[PartTableOffset + (index - 1) * PartEntrySize + StartLbaField]
EntryCount(index) == mbr[PartTableOffset + (index - 1) * PartEntrySize + NumSectorsField]

\* C7: when resolution succeeds on an entry with start sector L > 0 and
\* sector count S > 0, the window is base = L * 512 and size = S * 512 as
\* exact integers, and end = base + size.
C7_WindowExact ==
  (init_returned /\ EntryStart(ConfiguredIndex) > 0 /\ EntryCount(ConfiguredIndex) > 0)
  => /\ partition_base_bytes = EntryStart(ConfiguredIndex) * SectorSize
     /\ partition_size_bytes = EntryCount(ConfiguredIndex) * SectorSize
     /\ partition_end_bytes = partition_base_bytes + partition_size_bytes

\* The body of init has run with a configuration and system calls that let
\* it reach get_partition's choice of the entry.
ReachedEntry ==
  /\ init_io = IoOk
  /\ HasEnv("P_FILE") /\ HasEnv("P_NUM")
  /\ mbr[510] = Sig510 /\ mbr[511] = Sig511

\* C8: for each index 1, 2, 3 and 4, with a valid signature and a non-zero
\* start sector and sector count in that slot, resolution succeeds and uses
\* the entry at byte offset 446 + (index - 1) * 16.
C8_PrimarySlots ==
  (ReachedEntry /\ ConfiguredIndex \in 1..4
     /\ EntryStart(ConfiguredIndex) # 0 /\ EntryCount(ConfiguredIndex) # 0)
  => /\ init_returned
     /\ partition_base_bytes = SectorsToBytes(EntryStart(ConfiguredIndex))
     /\ partition_size_bytes = SectorsToBytes(EntryCount(ConfiguredIndex))

\* C9: with a partition index in 5..8 initialization passes the range
\* validation, resolution fails and the process ends: no window is
\* computed and no call returns.
C9_ExtendedSlots ==
  (init_io # NoIo /\ HasEnv("P_NUM") /\ ConfiguredIndex \in 5..8)
  => /\ status = "aborted"
     /\ abort_reason # "range"
     /\ (init_io = IoOk /\ HasEnv("P_FILE") => abort_reason = "partition")
     /\ ~init_returned /\ ~call.returned
     /\ partition_base_bytes = 0 /\ partition_size_bytes = 0
     /\ partition_end_bytes = 0

\* With P_NUM = "8" and a readable image, the process ended in resolution.
C9_Witness ==
  /\ init_io = IoOk /\ HasEnv("P_FILE") /\ HasEnv("P_NUM")
  /\ ConfiguredIndex = 8
  /\ status = "aborted" /\ abort_reason = "partition"

\* A configuration error: P_FILE or P_NUM unset, an index outside 1..8, an
\* image that cannot be opened or whose metadata cannot be read, a short
\* read, a wrong signature, a zero start sector or sector count.
ConfigError ==
  \/ ~HasEnv("P_FILE")
  \/ ~HasEnv("P_NUM")
  \/ ~init_io.open1 \/ ~init_io.fstat \/ ~init_io.open2
  \/ init_io.nread < MbrSize
  \/ mbr[510] # Sig510 \/ mbr[511] # Sig511
  \/ /\ HasEnv("P_NUM")
     /\ \/ ConfiguredIndex \notin 1..8
        \/ /\ ConfiguredIndex \in PartSlots
           /\ (EntryStart(ConfiguredIndex) = 0 \/ EntryCount(ConfiguredIndex) = 0)

\* C10: every configuration error met by the body of init ends the
\* process: the call that ran init does not return, and it is the last.
C10_ConfigErrorFatal ==
  (init_io # NoIo /\ ConfigError)
  => /\ status = "aborted"
     /\ ~init_returned
     /\ call.ran_init /\ ~call.returned /\ ~call.in_body

\* A boot sector whose byte 511 is wrong, and nothing else, ended the process.
C10_Witness ==
  /\ init_io = IoOk /\ HasEnv("P_FILE") /\ HasEnv("P_NUM")
  /\ ConfiguredIndex \in 1..3
  /\ EntryStart(ConfiguredIndex) # 0 /\ EntryCount(ConfiguredIndex) # 0
  /\ mbr[510] = Sig510 /\ mbr[511] # Sig511
  /\ status = "aborted" /\ abort_reason = "partition"

\* The translator is ready: init has run to its end and set its flag.
Ready == initialized = 1 /\ init_returned

\* C11 as stated: once a call of any of the four intercepted functions
\* (lseek, __xstat, __fxstat, fallocate) has returned, init has run and the
\* translator is ready.
C11_AnyOpInits == (call.op \in AllOps /\ call.returned) => Ready

\* C11: in a run of one thread, a call of lseek, __xstat or __fxstat made
\* while the translator is uninitialized runs init before it returns, so the
\* translator is ready when that call returns; fallocate is not one of them.
C11_FirstCallInits ==
  [][ (initialized = 0 /\ call'.op \in InitOps /\ call'.returned)
        => (call'.ran_init /\ initialized' = 1 /\ init_returned') ]_vars

\* A first call of __xstat has run init and returned.
C11_Witness ==
  /\ call.op = "__xstat" /\ call.ran_init /\ call.returned
  /\ Ready /\ init_runs = 1

\* C12: fallocate returns 0 for every combination of its arguments in every
\* state of the translator, calls no real function, and leaves the
\* initialized flag, the window, the identity, the real-function pointers
\* and the file position as they were.
C12_FallocateNoop ==
  [][ call'.op = "fallocate"
        => /\ call'.returned /\ call'.ret = 0 /\ ~call'.real_called
           /\ UNCHANGED <<statics, file_pos, errno, status, abort_reason>>
           /\ UNCHANGED <<init_io, init_returned, init_runs>> ]_vars

\* fallocate with a descriptor that is not open, a negative offset and a
\* zero length has returned 0 in an initialized translator whose file
\* position is inside the window.
C12_Witness ==
  /\ call.op = "fallocate" /\ call.returned /\ call.ret = 0
  /\ call.fd = BadFd /\ call.offset = -1 /\ call.len = 0
  /\ Ready /\ real_lseek = RESOLVED /\ real_stat = NULL
  /\ file_pos > partition_base_bytes

\* The window and the identity of the image, as init left them.
Window == <<partition_base_bytes, partition_size_bytes, partition_end_bytes>>
Identity == <<file_dev, file_ino>>

\* C13: in a run of one thread the body of init is executed at most once,
\* however many of the three pointers are resolved (each resolution calls
\* init), and once init has completed the window and the identity never
\* change.
C13_InitOnce ==
  [][ /\ init_runs' <= 1
      /\ init_returned => (Window' = Window /\ Identity' = Identity
                           /\ init_runs' = init_runs /\ initialized' = 1) ]_vars

\* All three pointers were resolved by three calls, each of which called
\* init, and the body of init has run once.
C13_Witness ==
  /\ real_lseek = RESOLVED /\ real_stat = RESOLVED /\ real_fstat = RESOLVED
  /\ ~fstat_interposed
  /\ init_runs = 1 /\ Ready /\ ~call.ran_init /\ call.returned

\* C16: after a successful init, lseek with SEEK_SET or SEEK_END and any
\* offset, negative ones included, never makes the real seek return a
\* position below the base, so the abort of line 179 is not reached through
\* SEEK_SET or SEEK_END.
C16_NeverBelowBase ==
  (init_returned /\ SeekCall /\ call.whence \in {SEEK_SET, SEEK_END})
    => /\ (call.real_called /\ call.real_ret >= 0)
            => call.real_ret >= partition_base_bytes
       /\ abort_reason # "seek_below_base"

\* C17: after a successful init, whatever the whence and the descriptor, a
\* value returned by a seek that succeeded is non-negative and equals the
\* real file offset of the descriptor after that seek minus the base; and
\* when the real seek succeeds with a result in [0, base) the process is
\* terminated and lseek returns no value.
C17_ReturnRelative ==
  (init_returned /\ SeekCall /\ call.real_called /\ call.real_ret >= 0)
    => /\ call.real_ret = file_pos
       /\ call.returned
            => /\ call.ret >= 0
               /\ call.ret = file_pos - partition_base_bytes
               /\ status = "running"
       /\ call.real_ret < partition_base_bytes
            => /\ ~call.returned
               /\ status = "aborted" /\ abort_reason = "seek_below_base"
       /\ call.real_ret >= partition_base_bytes => call.returned

\* A relative seek moved the real position beyond the end of a window whose
\* base is not zero, and returned that position minus the base.
C17_Witness ==
  /\ init_returned /\ SeekCall /\ call.whence = SEEK_CUR /\ call.returned
  /\ partition_base_bytes > 0
  /\ file_pos > partition_end_bytes
  /\ call.ret = file_pos - partition_base_bytes

\* The last call is a relative seek made after a successful init.
SeekCur == init_returned /\ SeekCall /\ call.whence = SEEK_CUR

\* C18 as stated: a relative seek passes offset and whence to the real seek
\* as they are, and wherever the real seek lands, above the end of the
\* window or below its base, lseek neither clamps nor fails nor terminates
\* the process: it returns the new position relative to the base.
C18_CurUnchecked ==
  SeekCur
    => /\ call.real_called
       /\ call.real_offset = call.offset /\ call.real_whence = SEEK_CUR
       /\ call.real_ret >= 0
            => /\ status = "running" /\ call.returned
               /\ call.ret = call.real_ret - partition_base_bytes

\* C18: a relative seek passes offset and whence to the real seek as they
\* are.  Where the real seek lands at or above the base, the end of the
\* window or beyond included, lseek returns that position minus the base
\* without clamping; where it lands below the base the process is
\* terminated.
C18_CurAboveOnly ==
  SeekCur
    => /\ call.real_called
       /\ call.real_offset = call.offset /\ call.real_whence = SEEK_CUR
       /\ call.real_ret >= partition_base_bytes
            => /\ status = "running" /\ call.returned
               /\ call.ret = call.real_ret - partition_base_bytes
               /\ file_pos = call.real_ret
       /\ (call.real_ret >= 0 /\ call.real_ret < partition_base_bytes)
            => /\ status = "aborted" /\ abort_reason = "seek_below_base"
               /\ ~call.returned

\* From a position inside the window a relative seek has moved the real
\* position beyond the end of the window and returned.
C18_Witness ==
  /\ SeekCur /\ call.returned /\ call.offset > 0
  /\ file_pos - call.offset >= partition_base_bytes
  /\ file_pos - call.offset <= partition_end_bytes
  /\ file_pos > partition_end_bytes
  /\ call.ret > partition_size_bytes

\* C19: after a successful init a failure of the real function is returned
\* as it is and does not terminate the process: a negative result of the
\* real seek is returned without subtracting the base, and a non-zero result
\* of the real stat is returned with the caller's record left as it was.
C19_FailurePassthrough ==
  /\ (init_returned /\ SeekCall /\ call.real_called /\ call.real_ret < 0)
       => /\ call.returned /\ call.ret = call.real_ret
          /\ status = "running"
  /\ (init_returned /\ StatOp /\ call.real_ret # 0)
       => /\ call.returned /\ call.ret = call.real_ret
          /\ call.buf = StaleBuf /\ call.buf = call.buf_real
          /\ status = "running"

\* The real stat failed on a record that still holds the identity of the
\* image from an earlier call, in a window whose size differs from the
\* record's; the failure was returned.
C19_Witness ==
  /\ init_returned /\ StatOp /\ call.real_ret = -1 /\ call.returned
  /\ call.ret = -1
  /\ call.buf.st_dev = file_dev /\ call.buf.st_ino = file_ino
  /\ call.buf.st_size # partition_size_bytes
  /\ partition_base_bytes > 0

\* init has assigned the identity (lines 117-118) / the window (lines 78-80).
IdentityCaptured == Identity = <<ImageStat.st_dev, ImageStat.st_ino>>
WindowComputed == Window # <<0, 0, 0>>

\* C20 as stated: init reads and validates the boot sector, resolves the
\* partition into the window and then captures the identity, so the identity
\* is never captured before the window is computed.
C20_IdentityLast == IdentityCaptured => WindowComputed

\* C20: init captures the identity of the image first, then reads and
\* validates the boot sector and resolves the partition into the window, so
\* the window is never computed before the identity is captured, and never
\* without a boot sector that was read in full and carries the signature.
C20_IdentityFirst ==
  WindowComputed
    => /\ IdentityCaptured
       /\ init_io.open1 /\ init_io.fstat
       /\ init_io.open2 /\ init_io.nread = MbrSize /\ SignatureOk(mbr)

\* init has captured the identity and computed the window.
C20_Witness ==
  /\ init_returned /\ IdentityCaptured /\ WindowComputed
  /\ partition_end_bytes = partition_base_bytes + partition_size_bytes
  /\ call.ran_init

\* Thread t is about to read the window or the identity: it is at the
\* switch of lseek or at the real stat that fixup_statbuf follows, or its
\* init is at the fstat that enters __fxstat and fixup_statbuf.
ReadsShared(t) ==
  \/ At(t, "body")
  \/ At(t, "init_fstat") /\ fstat_interposed

\* C14: no seek or stat override reads the window or the identity before
\* init has finished writing them, in every interleaving of two threads and
\* for the __fxstat entered from init itself: whenever a thread is about to
\* read them, init has completed and both are assigned.
C14_NoEarlyRead ==
  \A t \in Threads :
    ReadsShared(t) => (init_returned /\ IdentityCaptured /\ WindowComputed)

\* C15: there is no lock around the test of line 92, so the body of init is
\* entered by every thread that found the flag clear there, at most once per
\* thread and not at most once per process: two threads that call seek or
\* stat while the translator is uninitialized can both enter it.
C15_BodyPerThread ==
  /\ init_runs <= Cardinality(Threads)
  /\ \A t \in Threads : thr[t].pc \in InitBodyPcs => (thr[t].ran /\ initialized = 1)

\* Both threads passed the test of line 92 and entered the body of init;
\* each has assigned the identity and is about to assign the window.
C15_Witness ==
  /\ status = "running" /\ init_runs = 2
  /\ \A t \in Threads : thr[t].pc = "init_part" /\ thr[t].ran
  /\ thr["t1"].op = "lseek" /\ thr["t2"].op = "__xstat"

====
